---- MODULE Spec2Model ----
(***************************************************************************)
(* Model of the panel tiling engine of styropor-calculator:                *)
(* calculateStyropor (src/src/CalculatorEngine.ts) and the recomputation   *)
(* of its result by App (src/src/App.tsx, useMemo).                        *)
(*                                                                         *)
(* One invocation is unrolled into steps: one step per iteration of the    *)
(* column loop (Cell), one per end of a course (EndRow), one for the       *)
(* closing area computation (Return).  A session (SpecCalls) runs one       *)
(* invocation after another.                                               *)
(*                                                                         *)
(* Lengths are whole numbers of an arbitrary unit.  panel.width is drawn   *)
(* from the even numbers, so that the half-bond shift panel.width / 2 of   *)
(* line 60 is a whole number; wall and exclusion lengths are arbitrary.    *)
(***************************************************************************)
EXTENDS Integers, Sequences, FiniteSets, TLC

VARIABLES
    wall,          \* argument wall: [width, height]
    panel,         \* argument panel: [width, height]
    exclusions,    \* argument exclusions: sequence of [x, y, width, height]
    pc,            \* "loop" inside the course loop, "done" after the return
    r,             \* course index of the for loop
    xOffset,       \* nominal left edge of the current cell
    yOffset,       \* bottom edge of the current course
    placedPanels,  \* local placedPanels
    offcuts,       \* local offcuts (the pool)
    panelsUsed,    \* local panelsUsed
    result,        \* the returned CalculationResult (meaningful when pc = "done")
    generated,     \* history: number of offcuts pushed by this invocation
    other,         \* the frame of a second invocation that is not running
                   \* now (at most one)
    previous,      \* history: the result of the directly preceding invocation
                   \* when this one is a recalculation of it (at most one)
    warm           \* history: TRUE once an earlier invocation has returned

vars == <<wall, panel, exclusions, pc, r, xOffset, yOffset, placedPanels,
          offcuts, panelsUsed, result, generated, other, previous, warm>>

args == <<wall, panel, exclusions>>
locals == <<r, xOffset, yOffset, placedPanels, offcuts, panelsUsed>>

(***************************************************************************)
(* Bounds of the model and the inputs drawn within them.                   *)
(***************************************************************************)
MaxWallWidth == 5
MaxWallHeight == 3
MaxPanelHalfWidth == 2
MaxPanelHeight == 2
MaxExclusions == 2
MaxDrift == 8

WallWidths == 1..MaxWallWidth
WallHeights == 1..MaxWallHeight
PanelWidths == {2 * k : k \in 1..MaxPanelHalfWidth}
PanelHeights == 1..MaxPanelHeight

Walls == [width : WallWidths, height : WallHeights]
Panels == [width : PanelWidths, height : PanelHeights]

\* The exclusion rectangles tried: one or two units wide and one unit high,
\* up to two units right of and one unit above the wall origin.  They
\* contain whole cells, cut cells, overlap each other and stick out of
\* small walls.  The id of an exclusion is not read by calculateStyropor
\* and is left out.
Rects == [x : {0, 1, 2}, y : {0, 1}, width : {1, 2}, height : {1}]
ExclusionLists == UNION {[1..n -> Rects] : n \in 0..MaxExclusions}

\* Arguments outside the documented domain: non-positive dimensions.
AnyWalls == [width : (-1)..2, height : (-1)..2]
AnyPanels == [width : {-2, 0, 2}, height : (-1)..2]
AnyRects == [x : {0}, y : {0}, width : (-1)..2, height : (-1)..1]
AnyExclusionLists == {<<>>} \cup {<<e>> : e \in AnyRects}

(***************************************************************************)
(* Arithmetic of the source.                                               *)
(***************************************************************************)
Max(a, b) == IF a >= b THEN a ELSE b
Min(a, b) == IF a <= b THEN a ELSE b

\* Math.ceil(n / d) for d > 0 (\div rounds towards minus infinity).
Ceil(n, d) == -((-n) \div d)

\* Mutant of MoreRows: r <= rows in place of r < rows.
MoreRowsInclusive ==
    IF panel.height = 0 THEN wall.height > 0
    ELSE IF panel.height > 0 THEN r <= Ceil(wall.height, panel.height)
    ELSE r <= Ceil(-wall.height, -panel.height)

\* Mutant of MoreRows: rows = Math.floor(wall.height / panel.height).
MoreRowsFloor ==
    IF panel.height = 0 THEN wall.height > 0
    ELSE IF panel.height > 0 THEN r < wall.height \div panel.height
    ELSE r < (-wall.height) \div (-panel.height)

\* r < rows, with rows = Math.ceil(wall.height / panel.height) in IEEE
\* arithmetic: x / 0 is Infinity, -Infinity or NaN, and r < NaN is false.
MoreRows ==
    IF panel.height = 0 THEN wall.height > 0
    ELSE IF panel.height > 0 THEN r < Ceil(wall.height, panel.height)
    ELSE r < Ceil(-wall.height, -panel.height)

\* Mutant of RowStart: the parity test is inverted.
RowStartInverted(row) == IF row % 2 = 0 THEN -(panel.width \div 2) ELSE 0

\* Mutant of RowStart: odd courses are shifted by a whole panel.width.
RowStartFullShift(row) == IF row % 2 = 1 THEN -panel.width ELSE 0

\* xOffset at the start of course row.
RowStart(row) == IF row % 2 = 1 THEN -(panel.width \div 2) ELSE 0

(***************************************************************************)
(* The visible footprint of the current cell.                              *)
(***************************************************************************)
\* Mutant of startX: the left edge is not clipped to the wall.
startXUnclipped == xOffset
startX == Max(0, xOffset)
startY == yOffset
\* Mutant of endX: the right edge is not clipped to the wall.
endXUnclipped == xOffset + panel.width
endX == Min(wall.width, xOffset + panel.width)
\* Mutant of endY: the top edge is not clipped to the wall.
endYUnclipped == yOffset + panel.height
endY == Min(wall.height, yOffset + panel.height)
widthOnWall == endX - startX
heightOnWall == endY - startY

\* The AABB intersection test of the footprint with exclusion exc.
Intersects(exc) ==
    /\ startX < exc.x + exc.width
    /\ startX + widthOnWall > exc.x
    /\ startY < exc.y + exc.height
    /\ startY + heightOnWall > exc.y

\* Mutant of Inside: strict comparisons, so that a footprint flush with the
\* edges of the exclusion is not inside it.
InsideStrict(exc) ==
    /\ startX > exc.x
    /\ startX + widthOnWall < exc.x + exc.width
    /\ startY > exc.y
    /\ startY + heightOnWall < exc.y + exc.height

\* Mutant of Inside: only the horizontal extent is compared.
InsideHorizontal(exc) ==
    /\ startX >= exc.x
    /\ startX + widthOnWall <= exc.x + exc.width

\* The footprint lies completely inside exclusion exc.
Inside(exc) ==
    /\ startX >= exc.x
    /\ startX + widthOnWall <= exc.x + exc.width
    /\ startY >= exc.y
    /\ startY + heightOnWall <= exc.y + exc.height

\* Mutant of overlapsExclusion: a cell is skipped as soon as it intersects
\* an exclusion.
overlapsExclusionPartial ==
    \E i \in 1..Len(exclusions) : Intersects(exclusions[i])

\* Mutant of overlapsExclusion: the flag is assigned on every iteration, so
\* the last exclusion of the list decides.
overlapsExclusionLast ==
    /\ exclusions # <<>>
    /\ Intersects(exclusions[Len(exclusions)])
    /\ Inside(exclusions[Len(exclusions)])

\* Mutant of overlapsExclusion: a cell is skipped when the exclusions
\* together cover its footprint.
overlapsExclusionUnion ==
    /\ widthOnWall > 0
    /\ heightOnWall > 0
    /\ \A i \in startX..(endX - 1), j \in startY..(endY - 1) :
           \E k \in 1..Len(exclusions) :
               /\ exclusions[k].x <= i
               /\ i < exclusions[k].x + exclusions[k].width
               /\ exclusions[k].y <= j
               /\ j < exclusions[k].y + exclusions[k].height

overlapsExclusion ==
    \E i \in 1..Len(exclusions) :
        Intersects(exclusions[i]) /\ Inside(exclusions[i])

(***************************************************************************)
(* The offcut pool.                                                        *)
(***************************************************************************)
\* Mutant of Fits: the width of the offcut is not compared.
FitsHeightOnly(oc) == oc.height >= heightOnWall

Fits(oc) == oc.width >= widthOnWall /\ oc.height >= heightOnWall

\* Mutant of offcutIndex: best fit, the narrowest fitting offcut (the first
\* of them).
offcutIndexBestFit ==
    IF \E i \in 1..Len(offcuts) : Fits(offcuts[i])
    THEN (CHOOSE i \in 1..Len(offcuts) :
              /\ Fits(offcuts[i])
              /\ \A j \in 1..Len(offcuts) :
                     Fits(offcuts[j]) =>
                         \/ offcuts[j].width > offcuts[i].width
                         \/ (offcuts[j].width = offcuts[i].width /\ j >= i)) - 1
    ELSE -1

\* offcuts.findIndex(...): 0-based index of the first fitting offcut, or -1.
offcutIndex ==
    IF \E i \in 1..Len(offcuts) : Fits(offcuts[i])
    THEN (CHOOSE i \in 1..Len(offcuts) :
              /\ Fits(offcuts[i])
              /\ \A j \in 1..(i - 1) : ~Fits(offcuts[j])) - 1
    ELSE -1

\* Mutant of Splice: the reused offcut stays in the pool.
SpliceNothing(seq, index) == seq

\* seq.splice(index, 1) with a 0-based index.
Splice(seq, index) ==
    [k \in 1..(Len(seq) - 1) |-> IF k <= index THEN seq[k] ELSE seq[k + 1]]

\* Mutant of NewOffcut: the whole panel is kept as the offcut.
NewOffcutWhole == [width |-> panel.width, height |-> panel.height]

NewOffcut == [width |-> panel.width - widthOnWall, height |-> panel.height]

\* Mutant of NewPlacedPanel: isCut looks at the width only.
NewPlacedPanelWidthCut(reused) ==
    [id |-> <<r, xOffset>>,
     x |-> startX,
     y |-> startY,
     width |-> widthOnWall,
     height |-> heightOnWall,
     isCut |-> widthOnWall < panel.width,
     isOffcutReuse |-> reused]

NewPlacedPanel(reused) ==
    [id |-> <<r, xOffset>>,
     x |-> startX,
     y |-> startY,
     width |-> widthOnWall,
     height |-> heightOnWall,
     isCut |-> widthOnWall < panel.width \/ heightOnWall < panel.height,
     isOffcutReuse |-> reused]

(***************************************************************************)
(* The closing computation.                                                *)
(***************************************************************************)
RECURSIVE SumExclArea(_)
SumExclArea(excs) ==
    IF excs = <<>> THEN 0
    ELSE SumExclArea(SubSeq(excs, 1, Len(excs) - 1))
         + excs[Len(excs)].width * excs[Len(excs)].height

grossArea == wall.width * wall.height
exclArea == SumExclArea(exclusions)
\* Mutant of netArea: clamped at zero.
netAreaClamped == Max(0, grossArea - exclArea)
netArea == grossArea - exclArea
panelArea == panel.width * panel.height

\* Mutant of theoreticalPanels: Math.floor in place of Math.ceil.
theoreticalPanelsFloor ==
    IF panelArea > 0 THEN netArea \div panelArea ELSE 0

\* Math.ceil(netArea / panelArea) in IEEE arithmetic.
theoreticalPanels ==
    IF panelArea > 0 THEN Ceil(netArea, panelArea)
    ELSE IF panelArea < 0 THEN Ceil(-netArea, -panelArea)
    ELSE IF netArea > 0 THEN "Infinity"
    ELSE IF netArea < 0 THEN "-Infinity"
    ELSE "NaN"

actualUsedArea == panelsUsed * panelArea
\* Mutant of wasteArea: clamped at zero.
wasteAreaClamped == Max(0, actualUsedArea - netArea)
wasteArea == actualUsedArea - netArea

CalculationResult ==
    [netArea |-> netArea,
     grossArea |-> grossArea,
     theoreticalPanels |-> theoreticalPanels,
     practicalPanels |-> panelsUsed,
     placedPanels |-> placedPanels,
     wasteArea |-> wasteArea]

NoResult ==
    [netArea |-> 0, grossArea |-> 0, theoreticalPanels |-> 0,
     practicalPanels |-> 0, placedPanels |-> <<>>, wasteArea |-> 0]

(***************************************************************************)
(* Entry of an invocation: the locals as declared at lines 48-56.          *)
(***************************************************************************)
InitWith(w, p, e) ==
    /\ wall = w
    /\ panel = p
    /\ exclusions = e
    /\ placedPanels = <<>>
    /\ offcuts = <<>>
    /\ panelsUsed = 0
    /\ yOffset = 0
    /\ r = 0
    /\ xOffset = 0
    /\ generated = 0
    /\ result = NoResult
    /\ pc = "loop"
    /\ other = <<>>
    /\ previous = <<>>
    /\ warm = FALSE

Init == \E w \in Walls, p \in Panels, e \in ExclusionLists : InitWith(w, p, e)

(***************************************************************************)
(* One iteration of the column loop (lines 63-134).                        *)
(***************************************************************************)
\* Mutant of needsPiece: the size of the footprint is not tested.
needsPieceNoSizeTest == ~overlapsExclusion

\* The condition of line 95.
needsPiece == ~overlapsExclusion /\ widthOnWall > 0 /\ heightOnWall > 0

\* reused, as lines 97-105 leave it.
reused == offcutIndex # -1

\* Mutant of PanelsUsedAfter: the counter also counts reused offcuts.
PanelsUsedAlways == panelsUsed + 1

\* panelsUsed after lines 104-120.
PanelsUsedAfter == IF reused THEN panelsUsed ELSE panelsUsed + 1

\* Mutant of pushesOffcut: a panel clipped in height pushes one too.
pushesOffcutAnyCut ==
    ~reused /\ (widthOnWall < panel.width \/ heightOnWall < panel.height)

\* Mutant of pushesOffcut: every new panel pushes one.
pushesOffcutAlways == ~reused

\* Whether lines 114-119 push an offcut.
pushesOffcut == ~reused /\ widthOnWall < panel.width

\* offcuts after lines 104-120.
OffcutsAfter ==
    IF reused THEN Splice(offcuts, offcutIndex)
    ELSE IF pushesOffcut THEN Append(offcuts, NewOffcut)
    ELSE offcuts

\* Mutant of PlacedPanelsAfter: unshift in place of push.
PlacedPanelsUnshift == <<NewPlacedPanel(reused)>> \o placedPanels

\* placedPanels after the push of lines 122-130.
PlacedPanelsAfter == Append(placedPanels, NewPlacedPanel(reused))

Cell ==
    /\ pc = "loop"
    /\ MoreRows
    /\ xOffset < wall.width
    /\ xOffset >= RowStart(r) - MaxDrift
    /\ IF needsPiece
       THEN /\ offcuts' = OffcutsAfter
            /\ panelsUsed' = PanelsUsedAfter
            /\ generated' = IF pushesOffcut THEN generated + 1 ELSE generated
            /\ placedPanels' = PlacedPanelsAfter
       ELSE UNCHANGED <<placedPanels, offcuts, panelsUsed, generated>>
    /\ xOffset' = xOffset + panel.width
    /\ UNCHANGED <<args, pc, r, yOffset, result, other, previous, warm>>

(***************************************************************************)
(* The column loop ends (line 63 false): line 136, r++, and line 60 of the *)
(* next course when there is one.                                          *)
(***************************************************************************)
EndRow ==
    /\ pc = "loop"
    /\ MoreRows
    /\ ~(xOffset < wall.width)
    /\ r < MaxDrift
    /\ yOffset' = yOffset + panel.height
    /\ r' = r + 1
    /\ xOffset' = RowStart(r + 1)
    /\ UNCHANGED <<args, pc, placedPanels, offcuts, panelsUsed, result,
                   generated, other, previous, warm>>

(***************************************************************************)
(* The course loop ends (line 58 false): lines 139-156.                    *)
(***************************************************************************)
Return ==
    /\ pc = "loop"
    /\ ~MoreRows
    /\ result' = CalculationResult
    /\ pc' = "done"
    /\ UNCHANGED <<args, locals, generated, other, previous, warm>>

(***************************************************************************)
(* One invocation.                                                         *)
(***************************************************************************)
Next == Cell \/ EndRow \/ Return

Spec == Init /\ [][Next]_vars

\* One invocation with arguments of any sign.
InitAny ==
    \E w \in AnyWalls, p \in AnyPanels, e \in AnyExclusionLists : InitWith(w, p, e)

SpecAny == InitAny /\ [][Next]_vars

(***************************************************************************)
(* A session: invocation after invocation (App.tsx, useMemo), with the     *)
(* same arguments again or with the wall, the panel or the exclusion list  *)
(* replaced.  Sessions are explored with at most one exclusion.            *)
(***************************************************************************)
\* Mutants of EnterPlacedPanels and EnterOffcuts: the arrays live outside
\* the function and are carried into the next invocation.
EnterPlacedPanelsKept == placedPanels
EnterOffcutsKept == offcuts

\* placedPanels and offcuts of a later invocation: lines 48 and 49 allocate
\* new empty arrays on every entry.
EnterPlacedPanels == <<>>
EnterOffcuts == <<>>

Enter ==
    /\ placedPanels' = EnterPlacedPanels
    /\ offcuts' = EnterOffcuts
    /\ panelsUsed' = 0
    /\ yOffset' = 0
    /\ r' = 0
    /\ xOffset' = 0
    /\ generated' = 0
    /\ result' = NoResult
    /\ pc' = "loop"

SessionLists == {<<>>} \cup {<<e>> : e \in Rects}

InitCalls ==
    \E w \in Walls, p \in Panels, e \in SessionLists : InitWith(w, p, e)

Again ==
    /\ pc = "done"
    /\ previous' = <<result>>
    /\ warm' = TRUE
    /\ UNCHANGED args
    /\ UNCHANGED other
    /\ Enter

NewWall ==
    /\ pc = "done"
    /\ \E w \in Walls \ {wall} : wall' = w
    /\ UNCHANGED <<panel, exclusions>>
    /\ previous' = <<>>
    /\ warm' = TRUE
    /\ UNCHANGED other
    /\ Enter

NewPanel ==
    /\ pc = "done"
    /\ \E p \in Panels \ {panel} : panel' = p
    /\ UNCHANGED <<wall, exclusions>>
    /\ previous' = <<>>
    /\ warm' = TRUE
    /\ UNCHANGED other
    /\ Enter

NewExclusions ==
    /\ pc = "done"
    /\ \E e \in SessionLists \ {exclusions} : exclusions' = e
    /\ UNCHANGED <<wall, panel>>
    /\ previous' = <<>>
    /\ warm' = TRUE
    /\ UNCHANGED other
    /\ Enter

NextCalls ==
    Cell \/ EndRow \/ Return \/ Again \/ NewWall \/ NewPanel \/ NewExclusions

SpecCalls == InitCalls /\ [][NextCalls]_vars

(***************************************************************************)
(* Properties.                                                             *)
(***************************************************************************)
PositiveDimensions ==
    wall.width > 0 /\ wall.height > 0 /\ panel.width > 0 /\ panel.height > 0

\* The number of placed panels that are no offcut reuse.
NewCount(pp) == Cardinality({i \in 1..Len(pp) : ~pp[i].isOffcutReuse})

HasReuse(pp) == \E i \in 1..Len(pp) : pp[i].isOffcutReuse

\* C1: the counter of new stock panels is, after every step and in the
\* returned practicalPanels, the number of placed panels that are not an
\* offcut reuse.
C1_PracticalCountsNewPanels ==
    /\ panelsUsed = NewCount(placedPanels)
    /\ pc = "done" =>
           result.practicalPanels = NewCount(result.placedPanels)

C1_Witness ==
    /\ pc = "done"
    /\ HasReuse(result.placedPanels)
    /\ result.practicalPanels >= 2
    /\ exclusions # <<>>

\* C2: with positive dimensions and exclusions of positive size, the
\* returned practicalPanels is at least theoreticalPanels.
C2_PracticalAtLeastTheoretical ==
    pc = "done" => result.practicalPanels >= result.theoreticalPanels

C2_Witness ==
    /\ pc = "done"
    /\ HasReuse(result.placedPanels)
    /\ exclusions # <<>>
    /\ result.practicalPanels = result.theoreticalPanels
    /\ result.practicalPanels >= 2

\* C3: with a non-positive wall or panel dimension, calculateStyropor
\* signals an error: it never returns a CalculationResult.
C3_InvalidDimensionsRejected == ~PositiveDimensions => pc # "done"

\* Unit squares of the wall and of the footprints (all edges are whole).
Covers(p, i, j) ==
    p.x <= i /\ i + 1 <= p.x + p.width /\ p.y <= j /\ j + 1 <= p.y + p.height

RECURSIVE SumFootprints(_)
SumFootprints(pp) ==
    IF pp = <<>> THEN 0
    ELSE pp[1].width * pp[1].height + SumFootprints(Tail(pp))

\* The number of cells of course row that meet the wall: the nominal cells
\* are panel.width wide and start at 0, or half a panel left of 0.
CellsOfCourse(row) ==
    IF row % 2 = 1
    THEN Ceil(2 * wall.width + panel.width, 2 * panel.width)
    ELSE Ceil(wall.width, panel.width)

RECURSIVE CellsBelow(_)
CellsBelow(row) ==
    IF row = 0 THEN 0 ELSE CellsBelow(row - 1) + CellsOfCourse(row - 1)

\* C4: without exclusions the placed panels tile the wall exactly: one
\* placed panel per grid cell, every unit square of the wall under exactly
\* one footprint, and the footprints add up to grossArea.
C4_TilesWallExactly ==
    (pc = "done" /\ exclusions = <<>>) =>
        LET pp == result.placedPanels IN
        /\ Len(pp) = CellsBelow(Ceil(wall.height, panel.height))
        /\ \A a, b \in 1..Len(pp) : a # b => pp[a].id # pp[b].id
        /\ \A i \in 0..(wall.width - 1), j \in 0..(wall.height - 1) :
               Cardinality({k \in 1..Len(pp) : Covers(pp[k], i, j)}) = 1
        /\ SumFootprints(pp) = result.grossArea

C4_Witness ==
    /\ pc = "done"
    /\ exclusions = <<>>
    /\ Len(result.placedPanels) >= 6
    /\ HasReuse(result.placedPanels)
    /\ \E k \in 1..Len(result.placedPanels) :
           result.placedPanels[k].height < panel.height

\* C5: every placed panel lies inside the wall.
C5_PlacedPanelsInsideWall ==
    \A k \in 1..Len(placedPanels) :
        LET p == placedPanels[k] IN
        /\ 0 <= p.x
        /\ 0 <= p.y
        /\ p.x + p.width <= wall.width
        /\ p.y + p.height <= wall.height

C5_Witness ==
    /\ exclusions # <<>>
    /\ \E k \in 1..Len(placedPanels) :
           LET p == placedPanels[k] IN
           /\ p.width < panel.width
           /\ p.height < panel.height
           /\ p.x + p.width = wall.width
           /\ p.y + p.height = wall.height
           /\ p.x > 0
           /\ p.y > 0

\* The plain sum of width * height over a list of rectangles.
RectAreaSum(excs) ==
    LET RECURSIVE UpTo(_)
        UpTo(n) == IF n = 0 THEN 0
                   ELSE UpTo(n - 1) + excs[n].width * excs[n].height
    IN UpTo(Len(excs))

\* C6: grossArea is wall.width * wall.height and netArea is grossArea minus
\* the plain sum of the exclusion areas, overlapping or outside the wall
\* or not, and not clamped at zero.
C6_AreasArePlainSums ==
    pc = "done" =>
        /\ result.grossArea = wall.width * wall.height
        /\ result.netArea = wall.width * wall.height - RectAreaSum(exclusions)

C6_Witness ==
    /\ pc = "done"
    /\ result.netArea < 0
    /\ Len(exclusions) = 2
    /\ exclusions[1] = exclusions[2]
    /\ exclusions[1].x + exclusions[1].width > wall.width

\* C7: theoreticalPanels is the ceiling of netArea / (panel.width *
\* panel.height): the least integer t with t * panelArea >= netArea, also
\* for a zero or negative netArea.
C7_TheoreticalIsCeiling ==
    pc = "done" =>
        LET t == result.theoreticalPanels
            a == panel.width * panel.height
        IN /\ t * a >= result.netArea
           /\ (t - 1) * a < result.netArea

C7_Witness ==
    /\ pc = "done"
    /\ result.netArea < 0
    /\ result.netArea % (panel.width * panel.height) # 0
    /\ result.theoreticalPanels < 0

\* C8: wasteArea is practicalPanels * panel.width * panel.height - netArea,
\* also when that is negative.
C8_WasteIsUsedMinusNet ==
    pc = "done" =>
        result.wasteArea =
            result.practicalPanels * panel.width * panel.height - result.netArea

C8_Witness ==
    /\ pc = "done"
    /\ PositiveDimensions
    /\ result.practicalPanels >= 1
    /\ result.wasteArea < 0

\* C9: an invocation with the arguments of the invocation before it
\* returns the same result, placedPanels with their order, ids and flags
\* included.
C9_SameArgumentsSameResult ==
    (pc = "done" /\ previous # <<>>) => result = previous[1]

C9_Witness ==
    /\ pc = "done"
    /\ previous # <<>>
    /\ HasReuse(result.placedPanels)
    /\ offcuts # <<>>
    /\ exclusions # <<>>

\* C10: every invocation starts with an empty pool, none placed and a zero
\* counter, so its first placed panel is no offcut reuse; for wall 50x50
\* and panel 100x50 (1x1 and 2x1 in units of 50) it yields one new panel,
\* whatever was calculated before; and no step of an invocation changes
\* its arguments.
C10_EntryState ==
    /\ (pc = "loop" /\ r = 0 /\ xOffset = 0) =>
           offcuts = <<>> /\ placedPanels = <<>> /\ panelsUsed = 0
    /\ placedPanels # <<>> => ~placedPanels[1].isOffcutReuse
    /\ (/\ pc = "done"
        /\ wall = [width |-> 1, height |-> 1]
        /\ panel = [width |-> 2, height |-> 1]
        /\ exclusions = <<>>) =>
           /\ result.practicalPanels = 1
           /\ Len(result.placedPanels) = 1
           /\ ~result.placedPanels[1].isOffcutReuse

C10_PoolPerInvocation ==
    /\ []C10_EntryState
    /\ [][pc = "loop" => args' = args]_vars

\* A second call for wall 50x50 right after wall 250x50, which left a 50x50
\* offcut in its pool.
C10_Witness ==
    /\ warm
    /\ pc = "done"
    /\ wall = [width |-> 1, height |-> 1]
    /\ panel = [width |-> 2, height |-> 1]
    /\ exclusions = <<>>
    /\ result.practicalPanels = 1

\* C11: placedPanels is in row-major order: of two placed panels the
\* earlier one is in a lower course, or in the same course and further left.
C11_RowMajorOrder ==
    \A a, b \in 1..Len(placedPanels) :
        a < b =>
            \/ placedPanels[a].y < placedPanels[b].y
            \/ /\ placedPanels[a].y = placedPanels[b].y
               /\ placedPanels[a].x < placedPanels[b].x

C11_Witness ==
    /\ pc = "done"
    /\ exclusions # <<>>
    /\ HasReuse(placedPanels)
    /\ \E a, b, c \in 1..Len(placedPanels) :
           /\ a < b /\ b < c
           /\ placedPanels[a].y < placedPanels[b].y
           /\ placedPanels[b].y = placedPanels[c].y
           /\ placedPanels[a].x > placedPanels[b].x

(***************************************************************************)
(* A recalculation with the same exclusions in another order.              *)
(***************************************************************************)
Reorderings(seq) ==
    {[i \in 1..Len(seq) |-> seq[p[i]]] : p \in Permutations(1..Len(seq))}

Permute ==
    /\ pc = "done"
    /\ ~warm
    /\ \E e \in Reorderings(exclusions) \ {exclusions} : exclusions' = e
    /\ UNCHANGED <<wall, panel>>
    /\ previous' = <<result>>
    /\ warm' = TRUE
    /\ UNCHANGED other
    /\ Enter

NextPermute == Cell \/ EndRow \/ Return \/ Permute

\* Two exclusions: the shortest lists that have another order.
InitPermute ==
    \E w \in Walls, p \in Panels, e \in [1..2 -> Rects] : InitWith(w, p, e)

SpecPermute == InitPermute /\ [][NextPermute]_vars

\* C12: the same exclusions in another order give the same result: netArea,
\* theoreticalPanels, practicalPanels, wasteArea and the placedPanels list.
C12_ExclusionOrderIrrelevant ==
    (pc = "done" /\ previous # <<>>) => result = previous[1]

C12_Witness ==
    /\ pc = "done"
    /\ previous # <<>>
    /\ exclusions[1] # exclusions[2]
    /\ Len(result.placedPanels) < CellsBelow(Ceil(wall.height, panel.height))
    /\ HasReuse(result.placedPanels)

(***************************************************************************)
(* A recalculation after one more exclusion was added: the rectangle of a  *)
(* panel the preceding result placed.                                      *)
(***************************************************************************)
Footprint(p) == [x |-> p.x, y |-> p.y, width |-> p.width, height |-> p.height]

AddCellExclusion ==
    /\ pc = "done"
    /\ ~warm
    /\ \E k \in 1..Len(result.placedPanels) :
           exclusions' = Append(exclusions, Footprint(result.placedPanels[k]))
    /\ UNCHANGED <<wall, panel>>
    /\ previous' = <<result>>
    /\ warm' = TRUE
    /\ UNCHANGED other
    /\ Enter

NextAdd == Cell \/ EndRow \/ Return \/ AddCellExclusion

SpecAdd == InitCalls /\ [][NextAdd]_vars

Ids(pp) == [i \in 1..Len(pp) |-> pp[i].id]

\* C13: with one more exclusion, the visible footprint of a cell that was
\* placed, the result has one placed panel fewer: the cells placed are the
\* same, in the same order, without that cell.
C13_CellExclusionRemovesOnePanel ==
    (pc = "done" /\ previous # <<>>) =>
        LET old == previous[1].placedPanels
            new == result.placedPanels
            added == exclusions[Len(exclusions)]
        IN /\ Len(new) = Len(old) - 1
           /\ \E m \in 1..Len(old) :
                  /\ Footprint(old[m]) = added
                  /\ Ids(new) = [i \in 1..(Len(old) - 1) |->
                                    IF i < m THEN old[i].id ELSE old[i + 1].id]

C13_Witness ==
    /\ pc = "done"
    /\ previous # <<>>
    /\ Len(exclusions) = 2
    /\ Len(result.placedPanels) >= 4
    /\ HasReuse(previous[1].placedPanels)
    /\ result.practicalPanels = previous[1].practicalPanels

\* The course of a placed panel: the r of its id.
CourseOf(p) == p.id[1]

C14_EvenCoursesUncut ==
    (wall.width % panel.width = 0) =>
        \A k \in 1..Len(placedPanels) :
            CourseOf(placedPanels[k]) % 2 = 0 =>
                placedPanels[k].width = panel.width

\* C14: when wall.width is a multiple of panel.width, every panel placed in
\* an even course is panel.width wide, and no step of an even course pushes
\* an offcut.
C14_DivisibleWidthEvenCourses ==
    /\ []C14_EvenCoursesUncut
    /\ [][(pc = "loop" /\ wall.width % panel.width = 0 /\ r % 2 = 0) =>
              generated' = generated]_vars

C14_Witness ==
    /\ pc = "done"
    /\ wall.width % panel.width = 0
    /\ r >= 3
    /\ generated > 0
    /\ HasReuse(placedPanels)
    /\ \E k \in 1..Len(placedPanels) :
           /\ CourseOf(placedPanels[k]) = 2
           /\ placedPanels[k].x > 0

\* C15: a result without any offcut reuse has wasteArea >= 0.
C15_NoReuseNoNegativeWaste ==
    (pc = "done" /\ ~HasReuse(result.placedPanels)) => result.wasteArea >= 0

C15_Witness ==
    /\ pc = "done"
    /\ ~HasReuse(result.placedPanels)
    /\ exclusions # <<>>
    /\ Len(result.placedPanels) < CellsBelow(Ceil(wall.height, panel.height))
    /\ result.practicalPanels >= 2
    /\ result.wasteArea = 0

\* C16: with an exclusion of non-positive width or height,
\* calculateStyropor signals an error: it never returns a CalculationResult.
C16_InvalidExclusionRejected ==
    (/\ PositiveDimensions
     /\ \E i \in 1..Len(exclusions) :
            exclusions[i].width <= 0 \/ exclusions[i].height <= 0) =>
        pc # "done"

(***************************************************************************)
(* One invocation that keeps running: calculateStyropor is synchronous, so *)
(* a step that can be taken is taken.  Explored with at most one           *)
(* exclusion (the loop bounds do not read the exclusions).                 *)
(***************************************************************************)
FairSpec == InitCalls /\ [][Next]_vars /\ WF_vars(Next)

C17_CoursesAndColumnsBounded ==
    /\ pc = "done" => r = Ceil(wall.height, panel.height)
    /\ r <= Ceil(wall.height, panel.height)
    /\ xOffset < wall.width + panel.width

\* C17: an invocation with positive dimensions returns; when it does it has
\* processed Math.ceil(wall.height / panel.height) courses, and inside a
\* course the nominal left edge stays below wall.width + panel.width.
C17_Terminates ==
    /\ <>(pc = "done")
    /\ []C17_CoursesAndColumnsBounded

C17_Witness ==
    /\ pc = "done"
    /\ r = 3
    /\ Len(exclusions) = 1
    /\ Len(placedPanels) >= 7

(***************************************************************************)
(* Two invocations in flight.  Every invocation has a frame of its own:    *)
(* its arguments and the locals declared at lines 48-56.  The frame that   *)
(* is not running is kept in other; Switch suspends the running            *)
(* invocation between two steps and resumes the other one.  Before the two *)
(* are interleaved each of them runs alone once, which gives the results   *)
(* to compare with.                                                        *)
(***************************************************************************)
\* Mutant of ResumedOffcuts: one pool outside the function, which the
\* resumed invocation finds as the suspended one left it.
ResumedOffcutsShared == offcuts

\* Mutant of ResumedPanelsUsed: one counter outside the function.
ResumedPanelsUsedShared == panelsUsed

\* The pool and the counter of the resumed invocation: the arrays and the
\* counter of lines 48-51 are locals, one set per invocation.
ResumedOffcuts == other[1].offcuts
ResumedPanelsUsed == other[1].panelsUsed

Frame(alone) ==
    [wall |-> wall, panel |-> panel, exclusions |-> exclusions,
     pc |-> pc, r |-> r, xOffset |-> xOffset, yOffset |-> yOffset,
     placedPanels |-> placedPanels, offcuts |-> offcuts,
     panelsUsed |-> panelsUsed, result |-> result, generated |-> generated,
     alone |-> alone]

EntryFrame(f) ==
    [f EXCEPT !.pc = "loop", !.r = 0, !.xOffset = 0, !.yOffset = 0,
              !.placedPanels = <<>>, !.offcuts = <<>>, !.panelsUsed = 0,
              !.result = NoResult, !.generated = 0]

PairLists == {<<>>, <<[x |-> 1, y |-> 0, width |-> 1, height |-> 1]>>}

PartnerWalls == {w \in Walls : w.height = 2}

InitPair ==
    \E w \in Walls, p \in Panels, e \in PairLists : InitWith(w, p, e)

Paired == other # <<>> /\ previous # <<>>

\* The first invocation has returned alone; the second one, with other
\* arguments, starts alone.
StartSecond ==
    /\ pc = "done"
    /\ other = <<>>
    /\ ~warm
    /\ \E w \in PartnerWalls, p \in Panels :
           /\ <<w, p, <<>>>> # args
           /\ wall' = w
           /\ panel' = p
    /\ exclusions' = <<>>
    /\ other' = <<Frame(<<result>>)>>
    /\ previous' = <<>>
    /\ warm' = TRUE
    /\ Enter

\* Both have returned alone; both are entered again.
StartBoth ==
    /\ pc = "done"
    /\ other # <<>>
    /\ previous = <<>>
    /\ other' = <<EntryFrame(other[1])>>
    /\ previous' = <<result>>
    /\ UNCHANGED <<args, warm>>
    /\ Enter

Switch ==
    /\ Paired
    /\ other' = <<Frame(previous)>>
    /\ wall' = other[1].wall
    /\ panel' = other[1].panel
    /\ exclusions' = other[1].exclusions
    /\ pc' = other[1].pc
    /\ r' = other[1].r
    /\ xOffset' = other[1].xOffset
    /\ yOffset' = other[1].yOffset
    /\ placedPanels' = other[1].placedPanels
    /\ offcuts' = ResumedOffcuts
    /\ panelsUsed' = ResumedPanelsUsed
    /\ result' = other[1].result
    /\ generated' = other[1].generated
    /\ previous' = other[1].alone
    /\ UNCHANGED warm

NextPair == Cell \/ EndRow \/ Return \/ StartSecond \/ StartBoth \/ Switch

SpecPair == InitPair /\ [][NextPair]_vars

\* What an invocation f has built so far is the beginning of what it built
\* alone, and what it returns is what it returned alone.
SameAsAlone(f) ==
    LET ref == f.alone[1]
    IN  /\ Len(f.placedPanels) <= Len(ref.placedPanels)
        /\ f.placedPanels = SubSeq(ref.placedPanels, 1, Len(f.placedPanels))
        /\ f.panelsUsed = NewCount(f.placedPanels)
        /\ f.pc = "done" => f.result = ref

\* C18: two invocations with different inputs, interleaved step by step in
\* any order, are independent: each works on its own pool, counter and
\* placedPanels, and each returns the result it returns when it runs alone.
C18_InterleavedInvocationsIndependent ==
    Paired => SameAsAlone(Frame(previous)) /\ SameAsAlone(other[1])

C18_Witness ==
    /\ Paired
    /\ pc = "done"
    /\ HasReuse(result.placedPanels)
    /\ other[1].pc = "loop"
    /\ other[1].r >= 1
    /\ other[1].offcuts # <<>>
    /\ other[1].wall # wall
    /\ other[1].panel # panel

(***************************************************************************)
(* The state App starts with: a wall of 500 x 300, panels of 100 x 50 and  *)
(* one door.                                                               *)
(***************************************************************************)
DefaultWall == [width |-> 500, height |-> 300]

DefaultPanel == [width |-> 100, height |-> 50]

DefaultExclusions == <<[x |-> 200, y |-> 0, width |-> 100, height |-> 210]>>

InitDefault == InitWith(DefaultWall, DefaultPanel, DefaultExclusions)

SpecDefault == (Init \/ InitDefault) /\ [][Next]_vars

\* C19: the wall is split into exactly ceil(wall.height / panel.height)
\* courses; course r starts at y = r * panel.height, every placed panel has
\* the y of its course, and only the top course can be lower than
\* panel.height.  The wall of 500 x 300 with panels of 100 x 50 has 6 courses.
C19_Courses ==
    LET rows == Ceil(wall.height, panel.height)
    IN  /\ r <= rows
        /\ yOffset = r * panel.height
        /\ pc = "done" => r = rows
        /\ \A i \in 1..Len(placedPanels) :
               LET p == placedPanels[i]
               IN  /\ CourseOf(p) \in 0..(rows - 1)
                   /\ p.y = CourseOf(p) * panel.height
                   /\ p.height = Min(panel.height, wall.height - p.y)
                   /\ p.height < panel.height => CourseOf(p) = rows - 1
        /\ (pc = "done" /\ wall = DefaultWall /\ panel = DefaultPanel) =>
               /\ r = 6
               /\ {placedPanels[i].y : i \in 1..Len(placedPanels)}
                      = {0, 50, 100, 150, 200, 250}

C19_Witness ==
    /\ pc = "done"
    /\ wall = DefaultWall
    /\ panel = DefaultPanel
    /\ exclusions = DefaultExclusions
    /\ r = 6
    /\ \E i \in 1..Len(result.placedPanels) :
           /\ CourseOf(result.placedPanels[i]) = 5
           /\ result.placedPanels[i].y = 250

\* The nominal left edges of course row: k * panel.width in an even course,
\* -panel.width / 2 + k * panel.width in an odd one (k = 0, 1, ...).
NominalIn(row, x) ==
    IF row % 2 = 0
    THEN x >= 0 /\ x % panel.width = 0
    ELSE /\ x >= -(panel.width \div 2)
         /\ (x + panel.width \div 2) % panel.width = 0

\* C20: the half-bond shift depends only on the parity of the course: the
\* nominal cells of an even course start at k * panel.width and those of an
\* odd course at -panel.width / 2 + k * panel.width, so the first panel of
\* an odd course sits at x = 0 and is min(wall.width, panel.width / 2) wide.
C20_HalfBondByParity ==
    /\ NominalIn(r, xOffset)
    /\ \A i \in 1..Len(placedPanels) :
           LET p == placedPanels[i]
           IN  /\ NominalIn(CourseOf(p), p.id[2])
               /\ p.id[2] < wall.width
               /\ p.x = Max(0, p.id[2])
               /\ p.width = Min(wall.width, p.id[2] + panel.width) - p.x
               /\ (CourseOf(p) % 2 = 1 /\ p.id[2] < 0) =>
                      /\ p.id[2] = -(panel.width \div 2)
                      /\ p.x = 0
                      /\ p.width = Min(wall.width, panel.width \div 2)

C20_Witness ==
    /\ pc = "done"
    /\ r >= 3
    /\ wall.width < panel.width \div 2
    /\ \E i \in 1..Len(result.placedPanels) :
           LET p == result.placedPanels[i]
           IN  /\ CourseOf(p) = 1
               /\ p.id[2] = -(panel.width \div 2)
               /\ p.x = 0
               /\ p.width = wall.width
    /\ \E i \in 1..Len(result.placedPanels) :
           /\ CourseOf(result.placedPanels[i]) = 2
           /\ result.placedPanels[i].id[2] = 0

(***************************************************************************)
(* Steps of the column loop, described from outside: what one iteration    *)
(* does to the lists and the counter.                                      *)
(***************************************************************************)
\* A step that is one iteration of the column loop.
CellStep == pc = "loop" /\ pc' = "loop" /\ r' = r /\ xOffset' # xOffset

\* A step that leaves the lists and the counter alone.
Skipped == UNCHANGED <<placedPanels, offcuts, panelsUsed, generated>>

\* The rectangle x, y, w, h lies inside exclusion exc.
Contains(exc, x, y, w, h) ==
    /\ exc.x <= x
    /\ x + w <= exc.x + exc.width
    /\ exc.y <= y
    /\ y + h <= exc.y + exc.height

\* The rectangle x, y, w, h and exclusion exc share area.
SharesArea(exc, x, y, w, h) ==
    /\ Max(exc.x, x) < Min(exc.x + exc.width, x + w)
    /\ Max(exc.y, y) < Min(exc.y + exc.height, y + h)

\* The visible footprint of the current cell, from the arguments.
VisibleX == Max(0, xOffset)
VisibleWidth == Min(wall.width, xOffset + panel.width) - VisibleX
VisibleHeight == Min(wall.height, yOffset + panel.height) - yOffset

ContainedInOne ==
    \E k \in 1..Len(exclusions) :
        Contains(exclusions[k], VisibleX, yOffset, VisibleWidth, VisibleHeight)

\* The step places one panel, with the whole visible footprint, from a new
\* stock panel or from one offcut.
PlacesWholeFootprint ==
    /\ Len(placedPanels') = Len(placedPanels) + 1
    /\ SubSeq(placedPanels', 1, Len(placedPanels)) = placedPanels
    /\ LET p == placedPanels'[Len(placedPanels')]
       IN  /\ p.x = VisibleX
           /\ p.y = yOffset
           /\ p.width = VisibleWidth
           /\ p.height = VisibleHeight
           /\ IF p.isOffcutReuse
              THEN panelsUsed' = panelsUsed /\ Len(offcuts') = Len(offcuts) - 1
              ELSE panelsUsed' = panelsUsed + 1 /\ Len(offcuts') >= Len(offcuts)

\* C21: a cell is skipped (no placed panel, no counter increment, no offcut,
\* no change of the pool) exactly when its visible footprint lies inside one
\* exclusion; a cell that exclusions overlap only in part is placed, and its
\* placed panel has the whole visible footprint.
C21_SkippedIffContained ==
    [][CellStep =>
           IF ContainedInOne THEN Skipped ELSE PlacesWholeFootprint]_vars

C21_Witness ==
    /\ pc = "done"
    /\ Len(result.placedPanels) < CellsBelow(Ceil(wall.height, panel.height))
    /\ \E i \in 1..Len(result.placedPanels), k \in 1..Len(exclusions) :
           LET p == result.placedPanels[i]
           IN  /\ SharesArea(exclusions[k], p.x, p.y, p.width, p.height)
               /\ ~Contains(exclusions[k], p.x, p.y, p.width, p.height)

\* The exclusions together cover the rectangle x, y, w, h.
CoveredByUnion(x, y, w, h) ==
    \A i \in x..(x + w - 1), j \in y..(y + h - 1) :
        \E k \in 1..Len(exclusions) : Contains(exclusions[k], i, j, 1, 1)

\* C22: the containment test is applied to each exclusion on its own: a
\* cell whose visible footprint is covered by two or more exclusions
\* together, but lies inside none of them, is placed and consumes material.
C22_UnionDoesNotSkip ==
    [][(/\ CellStep
        /\ CoveredByUnion(VisibleX, yOffset, VisibleWidth, VisibleHeight)
        /\ ~ContainedInOne) => PlacesWholeFootprint]_vars

C22_Witness ==
    /\ pc = "done"
    /\ Len(exclusions) = 2
    /\ exclusions[1].x < exclusions[2].x
    /\ exclusions[2].x < exclusions[1].x + exclusions[1].width
    /\ \E i \in 1..Len(result.placedPanels) :
           LET p == result.placedPanels[i]
           IN  /\ CoveredByUnion(p.x, p.y, p.width, p.height)
               /\ \A k \in 1..Len(exclusions) :
                      ~Contains(exclusions[k], p.x, p.y, p.width, p.height)

(***************************************************************************)
(* One invocation with at most one exclusion, a unit square anywhere on    *)
(* the largest wall: it can take a single narrow cell at the end of a      *)
(* course out of the run.                                                  *)
(***************************************************************************)
UnitRects ==
    [x : 0..(MaxWallWidth - 1), y : 0..(MaxWallHeight - 1),
     width : {1}, height : {1}]

InitUnit ==
    \E w \in Walls, p \in Panels, e \in {<<>>} \cup {<<u>> : u \in UnitRects} :
        InitWith(w, p, e)

SpecUnit == InitUnit /\ [][Next]_vars

\* seq without its element at position i (1-based).
RemoveAt(seq, i) == SubSeq(seq, 1, i - 1) \o SubSeq(seq, i + 1, Len(seq))

\* Offcut oc is large enough for placed panel p.
LargeEnough(oc, p) == oc.width >= p.width /\ oc.height >= p.height

\* The step places a panel.
Places == Len(placedPanels') = Len(placedPanels) + 1

\* C23: offcut reuse is first-fit in creation order: new offcuts go to the
\* end of the pool, a placed cell takes the earliest offcut of the pool that
\* is large enough (a new panel only when none is), the offcut is removed
\* whole, the others keep their order, and nothing is put back.
C23_FirstFitInCreationOrder ==
    [][(CellStep /\ Places) =>
           LET p == placedPanels'[Len(placedPanels')]
               fitting == {i \in 1..Len(offcuts) : LargeEnough(offcuts[i], p)}
           IN  IF p.isOffcutReuse
               THEN /\ fitting # {}
                    /\ \E i \in fitting :
                           /\ \A j \in fitting : i <= j
                           /\ offcuts' = RemoveAt(offcuts, i)
               ELSE /\ fitting = {}
                    /\ \/ offcuts' = offcuts
                       \/ /\ Len(offcuts') = Len(offcuts) + 1
                          /\ SubSeq(offcuts', 1, Len(offcuts)) = offcuts]_vars

\* The last step took the first offcut of the pool although the second one,
\* narrower, was large enough too: the pool held the offcuts of the first
\* two cut panels, and the second of them is still there.
C23_Witness ==
    /\ pc = "loop"
    /\ Len(offcuts) = 1
    /\ generated = 2
    /\ placedPanels # <<>>
    /\ LET n == Len(placedPanels)
           p == placedPanels[n]
           cut == {i \in 1..(n - 1) : placedPanels[i].width < panel.width}
       IN  /\ p.isOffcutReuse
           /\ \A i \in 1..(n - 1) : ~placedPanels[i].isOffcutReuse
           /\ \E a, b \in cut :
                  /\ a < b
                  /\ cut = {a, b}
                  /\ placedPanels[a].width < placedPanels[b].width
                  /\ offcuts[1].width = panel.width - placedPanels[b].width
                  /\ LargeEnough(offcuts[1], p)

(***************************************************************************)
(* One invocation on a strip of 250 x 50 with panels of 100 x 50, next to  *)
(* the invocations of a session with at most one exclusion.                *)
(***************************************************************************)
StripWall == [width |-> 250, height |-> 50]

StripPanel == [width |-> 100, height |-> 50]

InitStrip == InitWith(StripWall, StripPanel, <<>>)

SpecStrip == (InitCalls \/ InitStrip) /\ [][Next]_vars

\* What a new stock panel leaves in the pool after placed panel p was cut
\* from it.
RestOf(p) == [width |-> panel.width - p.width, height |-> panel.height]

C24_StripRun ==
    (pc = "done" /\ wall = StripWall /\ panel = StripPanel) =>
        /\ [i \in 1..Len(placedPanels) |-> placedPanels[i].x] = <<0, 100, 200>>
        /\ \A i \in 1..Len(placedPanels) : ~placedPanels[i].isOffcutReuse
        /\ offcuts = <<[width |-> 50, height |-> 50]>>
        /\ generated = 1

\* C24: a cell served by a new stock panel appends the offcut
\* (panel.width - visible width, panel.height) to the pool if and only if
\* the visible width is smaller than panel.width; a new panel that is
\* clipped in height only appends nothing.  The wall of 250 x 50 with
\* panels of 100 x 50 has panels at x = 0, 100, 200 and one offcut of
\* 50 x 50, from the last of them.
C24_OffcutIffNarrower ==
    /\ []C24_StripRun
    /\ [][(CellStep /\ Places) =>
              LET p == placedPanels'[Len(placedPanels')]
              IN  ~p.isOffcutReuse =>
                      IF p.width < panel.width
                      THEN offcuts' = Append(offcuts, RestOf(p))
                      ELSE offcuts' = offcuts]_vars

C24_Witness ==
    /\ pc = "done"
    /\ wall = StripWall
    /\ panel = StripPanel
    /\ Len(placedPanels) = 3
    /\ placedPanels[3].width = 50
    /\ offcuts = <<RestOf(placedPanels[3])>>

\* C25: for every placed panel, isCut is true if and only if its width is
\* smaller than panel.width or its height is smaller than panel.height,
\* whether the piece came from a new panel or from an offcut.
C25_IsCutIffSmaller ==
    /\ \A i \in 1..Len(placedPanels) :
           placedPanels[i].isCut <=>
               \/ placedPanels[i].width < panel.width
               \/ placedPanels[i].height < panel.height
    /\ pc = "done" => result.placedPanels = placedPanels

C25_Witness ==
    /\ pc = "done"
    /\ \E i, j, k \in 1..Len(result.placedPanels) :
           LET pp == result.placedPanels
           IN  /\ ~pp[i].isCut
               /\ pp[j].isCut /\ pp[j].isOffcutReuse
               /\ pp[k].isCut /\ ~pp[k].isOffcutReuse
               /\ pp[k].width = panel.width
               /\ pp[k].height < panel.height

C26_PlacedPanelsHaveSize ==
    \A i \in 1..Len(placedPanels) :
        /\ 0 < placedPanels[i].width
        /\ placedPanels[i].width <= panel.width
        /\ 0 < placedPanels[i].height
        /\ placedPanels[i].height <= panel.height

\* C26: a cell whose visible width or visible height is zero or negative is
\* skipped: no placed panel, no stock panel, no offcut taken or pushed; so
\* every placed panel has 0 < width <= panel.width and
\* 0 < height <= panel.height.
C26_EmptyCellSkipped ==
    /\ []C26_PlacedPanelsHaveSize
    /\ [][(/\ pc = "loop" /\ pc' = "loop" /\ r' = r
           /\ (VisibleWidth <= 0 \/ VisibleHeight <= 0)) => Skipped]_vars

\* After cells without visible width: with a negative panel.width the
\* column loop has walked left of the wall and has placed nothing.
C26_Witness ==
    /\ pc = "loop"
    /\ wall.width > 0
    /\ wall.height > 0
    /\ panel.height > 0
    /\ panel.width < 0
    /\ xOffset <= 2 * panel.width
    /\ placedPanels = <<>>
    /\ offcuts = <<>>
    /\ panelsUsed = 0

\* The number of placed panels that are an offcut reuse.
ReuseCount(pp) == Cardinality({i \in 1..Len(pp) : pp[i].isOffcutReuse})

\* C27: at every point of an invocation every offcut of the pool has
\* 0 < width < panel.width and height = panel.height, and the size of the
\* pool is the number of offcuts generated so far minus the number of placed
\* panels that are an offcut reuse: an offcut is consumed at most once.
C27_PoolInvariant ==
    /\ \A i \in 1..Len(offcuts) :
           /\ 0 < offcuts[i].width
           /\ offcuts[i].width < panel.width
           /\ offcuts[i].height = panel.height
    /\ Len(offcuts) = generated - ReuseCount(placedPanels)
    /\ ReuseCount(placedPanels) <= generated

C27_Witness ==
    /\ Len(offcuts) >= 2
    /\ offcuts[1].width # offcuts[2].width
    /\ generated >= 3
    /\ HasReuse(placedPanels)

\* C28: material accounting: at every point of an invocation with positive
\* wall and panel dimensions the visible areas of the panels placed so far
\* add up to at most panelsUsed * panel.width * panel.height.
C28_MaterialAccounting ==
    /\ SumFootprints(placedPanels) <= panelsUsed * panel.width * panel.height
    /\ pc = "done" =>
           SumFootprints(result.placedPanels)
               <= result.practicalPanels * panel.width * panel.height

C28_Witness ==
    /\ pc = "done"
    /\ HasReuse(result.placedPanels)
    /\ result.practicalPanels >= 3
    /\ exclusions # <<>>
    /\ SumFootprints(result.placedPanels)
           = result.practicalPanels * panel.width * panel.height

\* C29: every placed panel that is an offcut reuse is cut and narrower than
\* panel.width: a full-width cell is never served from the pool.
C29_ReuseIsNarrow ==
    /\ \A i \in 1..Len(placedPanels) :
           placedPanels[i].isOffcutReuse =>
               /\ placedPanels[i].isCut
               /\ placedPanels[i].width < panel.width
    /\ \A i \in 1..Len(placedPanels) :
           placedPanels[i].width = panel.width =>
               ~placedPanels[i].isOffcutReuse

\* A full-width cell was served by a new panel while the pool held the
\* offcut of an earlier panel, which a later, narrower cell reused.
C29_Witness ==
    /\ pc = "done"
    /\ \E i, j, k \in 1..Len(placedPanels) :
           /\ i < j /\ j < k
           /\ ~placedPanels[i].isOffcutReuse
           /\ placedPanels[i].width < panel.width
           /\ placedPanels[j].width = panel.width
           /\ placedPanels[k].isOffcutReuse
           /\ placedPanels[k].height = panel.height
           /\ \A n \in 1..(k - 1) : ~placedPanels[n].isOffcutReuse

\* The column loop is about to visit a cell.
Visiting ==
    pc = "loop" /\ r < Ceil(wall.height, panel.height) /\ xOffset < wall.width

\* The cell is the leading, half-shifted cell of an odd course.
Leading == r % 2 = 1 /\ xOffset < 0

C30_VisitedCellsHaveSize ==
    Visiting =>
        /\ widthOnWall > 0
        /\ heightOnWall > 0
        /\ Leading => widthOnWall = Min(wall.width, panel.width \div 2)
        /\ needsPiece <=> ~overlapsExclusion

\* C30: for positive wall and panel dimensions every cell the column loop
\* visits has visible width > 0 and visible height > 0, the leading
\* half-shifted cell of an odd course included (its visible width is
\* min(wall.width, panel.width / 2)); the skip for cells without size is
\* never taken, so the leading cell is placed unless an exclusion
\* contains it.
C30_NoEmptyCells ==
    /\ []C30_VisitedCellsHaveSize
    /\ [][(CellStep /\ Leading /\ ~ContainedInOne) =>
              /\ Places
              /\ placedPanels'[Len(placedPanels')].x = 0
              /\ placedPanels'[Len(placedPanels')].width
                     = Min(wall.width, panel.width \div 2)]_vars

C30_Witness ==
    /\ pc = "loop"
    /\ wall = DefaultWall
    /\ panel = DefaultPanel
    /\ r = 3
    /\ xOffset = 50
    /\ placedPanels[Len(placedPanels)].id = <<3, -50>>
    /\ placedPanels[Len(placedPanels)].width = 50
    /\ placedPanels[Len(placedPanels)].x = 0
====
